---- MODULE Spec2Model ----
(***************************************************************************)
(* Pallene Tracer (ptracer.h): the shadow call stack of native frames, its *)
(* push / set-line / pop operations, the to-be-closed finalizer that trims *)
(* the stack when the host unwinds, and pallene_tracer_init, which keeps   *)
(* one stack per lua_State in the registry.                                *)
(*                                                                         *)
(* The C code is modelled operation by operation.  A lua_State is an       *)
(* element of Instances; a full userdata is an index into heap.  The       *)
(* malloc'ed frame array of a pt_fnstack_t is a function from the slots    *)
(* that have been written to the frame stored there: malloc returns        *)
(* uninitialised memory, so a slot outside the function's domain holds an  *)
(* indeterminate value.  An access outside [0, capacity) is undefined      *)
(* behaviour: a read yields any value, a write lands outside the tracer's  *)
(* own data, and either may end the process (crashed).  The frame array    *)
(* itself is "valid" after a malloc that succeeded, "null" after one that  *)
(* failed and "freed" after free; an access through a pointer that is not  *)
(* valid is undefined behaviour as well.                                   *)
(***************************************************************************)
EXTENDS Integers, Sequences, FiniteSets, TLC

(* -------------------------- bounds of the model ------------------------ *)

\* ptracer.h:44 sets 100000; the model scales the capacity down.
PALLENE_TRACER_MAX_CALLSTACK == 4

\* How far past the capacity the call depth may grow.
MaxOver == 1

\* How far below slot 0 the finalizer's scan is followed.
MaxUnder == 1

\* Userdata the host can allocate.
MaxUd == 3

\* Call depth explored when two host instances run side by side.
MaxDepthVM == 1

\* Call depth explored when host-dispatched entries pop their own frame.
MaxDepthExit == 2

Instances == {"L1", "L2"}

UdIds == 1..MaxUd

\* The lua_CFunction of the Lua interface frames and the pt_fn_details_t of
\* the C interface frames that are pushed.
LuaFns == {"f"}

CFns == {"g"}

\* The line numbers passed to pallene_tracer_setline; a new frame has line 0.
Lines == {1}

(* ------------------------------ Lua values ----------------------------- *)

PALLENE_TRACER_CONTAINER_ENTRY == "__PALLENE_TRACER_CONTAINER"

PALLENE_TRACER_FINALIZER_ENTRY == "__PALLENE_TRACER_FINALIZER"

PALLENE_TRACER_FRAME_TYPE_C == "C"

PALLENE_TRACER_FRAME_TYPE_LUA == "LUA"

EmptyFn == [x \in {} |-> 0]

Nil == [t |-> "nil"]

Userdata(k) == [t |-> "userdata", id |-> k]

\* A C closure: the C function and its single upvalue (Nil when it has none).
CClosure(f, up) == [t |-> "cclosure", fn |-> f, up |-> up]

\* A table is carried by value: the code never changes a table through one
\* reference after it has stored another.
NewTable == [t |-> "table", fields |-> EmptyFn, meta |-> Nil]

(* ------------------------------- frames -------------------------------- *)

\* PALLENE_TRACER_LUA_FRAME(fnptr): the designated initialiser leaves line 0.
PALLENE_TRACER_LUA_FRAME(fnptr) ==
    [type |-> PALLENE_TRACER_FRAME_TYPE_LUA, line |-> 0, shared |-> fnptr]

\* PALLENE_TRACER_C_FRAME(detl)
PALLENE_TRACER_C_FRAME(detl) ==
    [type |-> PALLENE_TRACER_FRAME_TYPE_C, line |-> 0, shared |-> detl]

Frames == {PALLENE_TRACER_LUA_FRAME(f) : f \in LuaFns}
              \cup {PALLENE_TRACER_C_FRAME(f) : f \in CFns}

InBounds(i) == 0 <= i /\ i < PALLENE_TRACER_MAX_CALLSTACK

\* stack[i] = v on the frame array
Store(stack, i, v) == [j \in DOMAIN stack \cup {i} |-> IF j = i THEN v ELSE stack[j]]

(* --------------- pt_fnstack_t operations (ptracer.h:186-203) ----------- *)
(* Each operation maps a pt_fnstack_t fs = [stack, count] to the set of    *)
(* its outcomes [fs, acc, crash]: the stack afterwards, the slots it read  *)
(* or wrote, and whether the process ended.  Defined behaviour has one     *)
(* outcome.                                                                *)

Outcome(fs, acc) == [fs |-> fs, acc |-> acc, crash |-> FALSE]

Crash(fs, acc) == [fs |-> fs, acc |-> acc, crash |-> TRUE]

\* A store to slot i outside the array: the store misses the tracer's data
\* or faults; fs is the stack as it is without the store.
OobWrite(fs, before, i) == {Outcome(fs, {i}), Crash(before, {i})}

\* What malloc can return: a block, or NULL.
Blocks == {"valid", "null"}

\* An operation on a fnstack whose frame array is in state mem.  Through a
\* null or freed pointer every slot access is undefined: the operation goes
\* on as if the memory were there, or the process ends.
Deref(mem, before, outcomes) ==
    IF mem = "valid"
    THEN outcomes
    ELSE outcomes \cup {Crash(before, o.acc) : o \in {x \in outcomes : x.acc # {}}}

\* Mutant: the guard lets the slot at the capacity be written.
FrameEnterWritesAtCapacity(count) == count <= PALLENE_TRACER_MAX_CALLSTACK

\* ptracer.h:188  if(fnstack->count < PALLENE_TRACER_MAX_CALLSTACK)
FrameEnterWrites(count) == count < PALLENE_TRACER_MAX_CALLSTACK

\* Mutant: a full stack stops counting.
FrameEnterCountStops(count) ==
    IF count < PALLENE_TRACER_MAX_CALLSTACK THEN count + 1 ELSE count

\* ptracer.h:191  fnstack->count++
FrameEnterCount(count) == count + 1

pallene_tracer_frameenter(fs, frame) ==
    LET i == fs.count
        counted == [fs EXCEPT !.count = FrameEnterCount(i)]
    IN  IF FrameEnterWrites(i)
        THEN IF InBounds(i)
             THEN {Outcome([counted EXCEPT !.stack = Store(fs.stack, i, frame)], {i})}
             ELSE OobWrite(counted, fs, i)
        ELSE {Outcome(counted, {})}

\* ptracer.h:196  if(fnstack->count != 0)
SetLineWrites(count) == count # 0

\* Mutant: count taken for the index of the top frame.
SetLineSlotAtCount(count) == count

\* ptracer.h:197  the slot whose line is set
SetLineSlot(count) == count - 1

pallene_tracer_setline(fs, line) ==
    LET i == SetLineSlot(fs.count)
    IN  IF SetLineWrites(fs.count)
        THEN IF i \in DOMAIN fs.stack
             THEN {Outcome([fs EXCEPT !.stack[i].line = line], {i})}
             ELSE IF InBounds(i)
                  \* a written line in a frame whose other fields are
                  \* indeterminate: the slot stays indeterminate
                  THEN {Outcome(fs, {i})}
                  ELSE OobWrite(fs, fs, i)
        ELSE {Outcome(fs, {})}

\* Mutant: the pop does not saturate.
FrameExitCountUnsaturated(count) == count - 1

\* Mutant: the pop saturates one frame early.
FrameExitCountOffByOne(count) == count - (IF count > 1 THEN 1 ELSE 0)

\* ptracer.h:202  fnstack->count -= (fnstack->count > 0)
FrameExitCount(count) == count - (IF count > 0 THEN 1 ELSE 0)

pallene_tracer_frameexit(fs) ==
    {Outcome([fs EXCEPT !.count = FrameExitCount(fs.count)], {})}

(* ------------- _pallene_tracer_finalizer (ptracer.h:225-238) ----------- *)

\* Mutant: the scan starts below the top frame.
FinalizerStartBelowTop(count) == count - 2

\* ptracer.h:230  int idx = fnstack->count - 1
FinalizerStart(count) == count - 1

\* Mutant: the scan stops at no frame.
FinalizerSkipsAll(type) == TRUE

\* ptracer.h:231  while(fnstack->stack[idx].type != PALLENE_TRACER_FRAME_TYPE_LUA)
FinalizerSkips(type) == type # PALLENE_TRACER_FRAME_TYPE_LUA

\* Mutant: the Lua interface frame itself is kept.
FinalizerCountKeepsLua(idx) == idx + 1

\* ptracer.h:235  fnstack->count = idx
FinalizerCount(idx) == idx

\* The slots at which the downward scan from idx can stop, each with whether
\* the scan read outside the array on its way.  A written slot decides by
\* its type; any other slot holds an indeterminate type, so the scan may
\* stop there or go on.  The scan is followed down to slot -MaxUnder; a
\* scan that goes further is taken to fault.
RECURSIVE FinalizerScan(_, _)
FinalizerScan(fs, idx) ==
    IF idx < 0 - MaxUnder
    THEN {}
    ELSE IF idx \in DOMAIN fs.stack
         THEN IF FinalizerSkips(fs.stack[idx].type)
              THEN FinalizerScan(fs, idx - 1)
              ELSE {[idx |-> idx, oob |-> FALSE]}
         ELSE {[idx |-> idx, oob |-> ~InBounds(idx)]}
                  \cup {[r EXCEPT !.oob = @ \/ ~InBounds(idx)] :
                           r \in FinalizerScan(fs, idx - 1)}

\* The scan from start reads a slot outside the array: it starts outside,
\* or no written slot at or below start holds a Lua frame.
ScanLeavesArray(fs, start) ==
    \/ ~InBounds(start)
    \/ \A i \in DOMAIN fs.stack : i <= start => FinalizerSkips(fs.stack[i].type)

pallene_tracer_finalizer(fs) ==
    LET start == FinalizerStart(fs.count)
        stops == FinalizerScan(fs, start)
        first == IF InBounds(start) THEN 0 - 1 ELSE start
    IN  {Outcome([fs EXCEPT !.count = FinalizerCount(r.idx)], r.idx..start) : r \in stops}
            \cup (IF ScanLeavesArray(fs, start) THEN {Crash(fs, first..start)} ELSE {})

(* ------------------- the Lua C API used by the tracer ------------------ *)
(* A Lua state seen by one C function: s = [stack, reg, heap, malloc], the  *)
(* value stack of the running C function, the registry of its lua_State,   *)
(* the userdata heap, and what the next call of malloc returns.  Negative  *)
(* indices count from the top, as in Lua.                                  *)

At(s, i) == s.stack[Len(s.stack) + 1 + i]

Push(s, v) == [s EXCEPT !.stack = Append(@, v)]

Pop(s) == [s EXCEPT !.stack = SubSeq(@, 1, Len(@) - 1)]

SetAt(s, i, v) == [s EXCEPT !.stack[Len(s.stack) + 1 + i] = v]

\* lua_getfield(L, LUA_REGISTRYINDEX, k)
lua_getfield_registry(s, k) == Push(s, s.reg[k])

\* lua_setfield(L, LUA_REGISTRYINDEX, k): pops the value
lua_setfield_registry(s, k) == Pop([s EXCEPT !.reg[k] = At(s, -1)])

\* lua_setfield(L, -2, k): t[k] = v for the table t below the top value v
lua_setfield(s, k) ==
    LET t == At(s, -2)
        u == [t EXCEPT !.fields = [j \in DOMAIN @ \cup {k} |->
                                      IF j = k THEN At(s, -1) ELSE @[j]]]
    IN  SetAt(Pop(s), -1, u)

\* lua_setmetatable(L, -2): pops a table and makes it the metatable of the
\* value below it
lua_setmetatable(s) ==
    LET m == At(s, -1)
        v == At(s, -2)
    IN  IF v.t = "userdata"
        THEN Pop([s EXCEPT !.heap[v.id].meta = m])
        ELSE SetAt(Pop(s), -1, [v EXCEPT !.meta = m])

lua_newtable(s) == Push(s, NewTable)

lua_pushcfunction(s, f) == Push(s, CClosure(f, Nil))

\* lua_pushcclosure(L, f, 1): pops the upvalue
lua_pushcclosure(s, f) == Push(Pop(s), CClosure(f, At(s, -1)))

lua_pushvalue(s, i) == Push(s, At(s, i))

FreeUd(heap) == {k \in DOMAIN heap : ~heap[k].live}

\* lua_newuserdata(L, sizeof(pt_fnstack_t)): a fresh block, pushed.  Its
\* fields are set by the caller before anything reads them.
lua_newuserdata(s) ==
    LET k == CHOOSE x \in FreeUd(s.heap) : \A y \in FreeUd(s.heap) : x <= y
    IN  Push([s EXCEPT !.heap[k].live = TRUE], Userdata(k))

\* The fnstack a finalizer object repairs: upvalue 1 of its __close closure.
FinalizerTarget(obj) == obj.meta.fields["__close"].up.id

(* ----------------- pallene_tracer_init (ptracer.h:260-302) ------------- *)

\* Mutant: the stack is created whether or not the registry holds one.
InitCreatesAlways(v) == TRUE

\* ptracer.h:268  if(lua_isnil(L, -1) == 1)
InitCreates(v) == v = Nil

\* ptracer.h:269-296, the branch that creates the stack
InitNew(s0) ==
    LET s1  == lua_newuserdata(s0)
        k   == At(s1, -1).id
        \* fnstack->stack = malloc(...); fnstack->count = 0
        s2  == [s1 EXCEPT !.heap[k].mem = s0.malloc,
                          !.heap[k].stack = EmptyFn, !.heap[k].count = 0]
        s3  == lua_newtable(s2)
        s4  == lua_pushcfunction(s3, "_pallene_tracer_free_resources")
        s5  == lua_setfield(s4, "__gc")
        s6  == lua_setmetatable(s5)
        s7  == lua_newtable(s6)
        s8  == lua_newtable(s7)
        s9  == lua_pushvalue(s8, -3)
        s10 == lua_pushcclosure(s9, "_pallene_tracer_finalizer")
        s11 == lua_setfield(s10, "__close")
        s12 == lua_setmetatable(s11)
        s13 == lua_setfield_registry(s12, PALLENE_TRACER_FINALIZER_ENTRY)
        s14 == lua_setfield_registry(s13, PALLENE_TRACER_CONTAINER_ENTRY)
        s15 == lua_getfield_registry(s14, PALLENE_TRACER_FINALIZER_ENTRY)
    IN  [s |-> s15, fnstack |-> k]

\* ptracer.h:298-299, the branch that finds the stack
InitExisting(s0) ==
    [s |-> lua_getfield_registry(s0, PALLENE_TRACER_FINALIZER_ENTRY),
     fnstack |-> At(s0, -1).id]

\* The state afterwards and the pointer returned.
pallene_tracer_init(s) ==
    LET s0 == lua_getfield_registry(s, PALLENE_TRACER_CONTAINER_ENTRY)
    IN  IF InitCreates(At(s0, -1)) THEN InitNew(s0) ELSE InitExisting(s0)

(* -------------------------------- state -------------------------------- *)

VARIABLES
    heap,        \* [UdIds -> userdata]: live, metatable, the pt_fnstack_t fields,
                 \*   and the state mem of the block its stack field points to
    registry,    \* [Instances -> the two reserved registry entries]
    vstack,      \* [Instances -> value stack of the last module entry point]
    handles,     \* [Instances -> what pallene_tracer_init gave its callers]
    calls,       \* [Instances -> the native calls active on the C stack]
    mode,        \* [Instances -> "run" or "unwind" (an error is propagating)]
    overflowed,  \* [Instances -> a frame was entered at or past the capacity]
    last,        \* the operation that led here and the slots it accessed
    crashed      \* the process ended in an out-of-bounds access

vars == <<heap, registry, vstack, handles, calls, mode, overflowed, last, crashed>>

OneVM == {"L1"}

Fs(k) == [stack |-> heap[k].stack, count |-> heap[k].count]

\* The record of an operation: its name, the host instance it ran on, the
\* slots it read or wrote, the count it found, and a number n: for a push
\* the length of the run of pushes, made back to back from the empty stack,
\* that it ends (0 when it ends none); for an unwinding step how many
\* finalizers the propagating error has fired.
Op(name, L, acc, pre, n) == [op |-> name, vm |-> L, acc |-> acc, pre |-> pre, n |-> n]

\* A native call on the C stack: its frame and the finalizer object marked
\* to-be-closed in its scope (Nil when it marked none).
\* It also keeps what the fnstack was when the call pushed its frame: the
\* count (base) and the frames below it that the array holds (below).
Call(frame, fin, fs) ==
    [type |-> frame.type, line |-> frame.line, shared |-> frame.shared, fin |-> fin,
     base |-> fs.count,
     below |-> [i \in {j \in DOMAIN fs.stack : j < fs.count} |-> fs.stack[i]]]

FrameOf(c) == [type |-> c.type, line |-> c.line, shared |-> c.shared]

Top(q) == q[Len(q)]

ButLast(q) == SubSeq(q, 1, Len(q) - 1)

Init ==
    /\ heap = [k \in UdIds |-> [live |-> FALSE, meta |-> Nil, mem |-> "none",
                               stack |-> EmptyFn, count |-> 0]]
    /\ registry = [L \in Instances |->
                      [k \in {PALLENE_TRACER_CONTAINER_ENTRY,
                              PALLENE_TRACER_FINALIZER_ENTRY} |-> Nil]]
    /\ vstack = [L \in Instances |-> <<>>]
    /\ handles = [L \in Instances |-> {}]
    /\ calls = [L \in Instances |-> <<>>]
    /\ mode = [L \in Instances |-> "run"]
    /\ overflowed = [L \in Instances |-> FALSE]
    /\ last = Op("none", "L1", {}, 0, 0)
    /\ crashed = FALSE

\* The effect of outcome o of an operation on fnstack k.
Apply(k, o) ==
    /\ heap' = [heap EXCEPT ![k].stack = o.fs.stack, ![k].count = o.fs.count]
    /\ crashed' = o.crash

(* --------------------- operations of the library ----------------------- *)

\* Mutant: one slot for the whole process instead of one per lua_State.
RegistryOfProcess(L) == registry["L1"]

\* LUA_REGISTRYINDEX of lua_State L: each state has a registry of its own.
RegistryOf(L) == registry[L]

\* pallene_tracer_init(L) called on a fresh C stack frame; malloc succeeds
InitResult(L) ==
    pallene_tracer_init([stack |-> <<>>, reg |-> RegistryOf(L), heap |-> heap,
                         malloc |-> "valid"])

\* A module entry point calls pallene_tracer_init and keeps the pointer
\* returned and the finalizer object pushed.
DoInit(L) ==
    /\ ~crashed
    /\ mode[L] = "run"
    /\ FreeUd(heap) # {}
    /\ heap' = InitResult(L).s.heap
    /\ registry' = [registry EXCEPT ![L] = InitResult(L).s.reg]
    /\ handles' = [handles EXCEPT ![L] =
                      @ \cup {[fnstack |-> InitResult(L).fnstack,
                               fin |-> At(InitResult(L).s, -1)]}]
    /\ last' = Op("init", L, {}, 0, 0)
    /\ UNCHANGED <<calls, mode, overflowed, crashed>>

\* The entry point seen as pallene_tracer_init returns: vstack is its frame
\* of the value stack.
TracerInit(L) ==
    /\ DoInit(L)
    /\ vstack' = [vstack EXCEPT ![L] = InitResult(L).s.stack]

\* pallene_tracer_frameenter(fnstack, &frame) through handle h
DoFrameEnter(L, h, frame, n) ==
    /\ ~crashed
    /\ mode[L] = "run"
    /\ \E o \in Deref(heap[h.fnstack].mem, Fs(h.fnstack),
                     pallene_tracer_frameenter(Fs(h.fnstack), frame)) :
          /\ Apply(h.fnstack, o)
          /\ last' = Op("frameenter", L, o.acc, heap[h.fnstack].count, n)
    /\ overflowed' = [overflowed EXCEPT ![L] =
                         @ \/ heap[h.fnstack].count >= PALLENE_TRACER_MAX_CALLSTACK]
    /\ UNCHANGED <<registry, vstack, handles, mode>>

\* pallene_tracer_setline(fnstack, line) through handle h
DoSetLine(L, h, line) ==
    /\ ~crashed
    /\ mode[L] = "run"
    /\ \E o \in Deref(heap[h.fnstack].mem, Fs(h.fnstack),
                     pallene_tracer_setline(Fs(h.fnstack), line)) :
          /\ Apply(h.fnstack, o)
          /\ last' = Op("setline", L, o.acc, heap[h.fnstack].count, 0)
    /\ UNCHANGED <<registry, vstack, handles, mode, overflowed>>

\* pallene_tracer_frameexit(fnstack) through handle h
DoFrameExit(L, h) ==
    /\ ~crashed
    /\ mode[L] = "run"
    /\ \E o \in pallene_tracer_frameexit(Fs(h.fnstack)) :
          /\ Apply(h.fnstack, o)
          /\ last' = Op("frameexit", L, o.acc, heap[h.fnstack].count, 0)
    /\ UNCHANGED <<registry, vstack, handles, mode, overflowed>>

\* The host closes the to-be-closed finalizer object fin: its __close
\* closure, _pallene_tracer_finalizer, runs on the fnstack in its upvalue.
DoFinalizer(L, fin, name, n) ==
    /\ ~crashed
    /\ \E o \in Deref(heap[FinalizerTarget(fin)].mem, Fs(FinalizerTarget(fin)),
                     pallene_tracer_finalizer(Fs(FinalizerTarget(fin)))) :
          /\ Apply(FinalizerTarget(fin), o)
          /\ last' = Op(name, L, o.acc, heap[FinalizerTarget(fin)].count, n)
    /\ UNCHANGED <<registry, vstack, handles, overflowed>>

MaxDepth == PALLENE_TRACER_MAX_CALLSTACK + MaxOver

\* The length of the run of back-to-back pushes from the empty stack that a
\* push through h ends, 0 when it ends none.
PushRun(L, h) ==
    IF heap[h.fnstack].count = 0 THEN 1
    ELSE IF last.op = "frameenter" /\ last.vm = L /\ last.n > 0
         THEN last.n + 1
         ELSE 0

(* ------------- push, set-line and pop along the call structure --------- *)
(* Every native call pushes a frame on entry and pops it on return; calls  *)
(* records the calls that are active.                                      *)

Enter(L, h, frame) ==
    /\ Len(calls[L]) < MaxDepth
    /\ DoFrameEnter(L, h, frame, PushRun(L, h))
    /\ calls' = [calls EXCEPT ![L] = Append(@, Call(frame, Nil, Fs(h.fnstack)))]

\* set-line in the running call, or outside any call
Line(L, h, line) ==
    /\ DoSetLine(L, h, line)
    /\ calls' = [calls EXCEPT ![L] =
                    IF Len(@) = 0 THEN @ ELSE [@ EXCEPT ![Len(@)].line = line]]

\* the running call returns, or a stray pop outside any call
Exit(L, h) ==
    /\ DoFrameExit(L, h)
    /\ calls' = [calls EXCEPT ![L] = IF Len(@) = 0 THEN @ ELSE ButLast(@)]

NextStack ==
    \/ \E L \in OneVM : TracerInit(L)
    \/ \E L \in OneVM : \E h \in handles[L] : \E frame \in Frames : Enter(L, h, frame)
    \/ \E L \in OneVM : \E h \in handles[L] : \E line \in Lines : Line(L, h, line)
    \/ \E L \in OneVM : \E h \in handles[L] : Exit(L, h)

SpecStack == Init /\ [][NextStack]_vars

(* ------------- the four operations in any order, any instance ---------- *)

OpEnter(L, h, frame) ==
    /\ heap[h.fnstack].count < MaxDepth
    /\ DoFrameEnter(L, h, frame, 0)
    /\ UNCHANGED calls

OpLine(L, h, line) == DoSetLine(L, h, line) /\ UNCHANGED calls

OpExit(L, h) == DoFrameExit(L, h) /\ UNCHANGED calls

OpFinalizer(L, h) ==
    /\ mode[L] = "run"
    /\ DoFinalizer(L, h.fin, "finalizer", 0)
    /\ UNCHANGED <<calls, mode>>

NextOps ==
    \/ \E L \in OneVM : TracerInit(L)
    \/ \E L \in OneVM : \E h \in handles[L] : \E frame \in Frames : OpEnter(L, h, frame)
    \/ \E L \in OneVM : \E h \in handles[L] : \E line \in Lines : OpLine(L, h, line)
    \/ \E L \in OneVM : \E h \in handles[L] : OpExit(L, h)
    \/ \E L \in OneVM : \E h \in handles[L] : OpFinalizer(L, h)

SpecOps == Init /\ [][NextOps]_vars

\* Two host instances side by side, to depth MaxDepthVM (within capacity).
\* Of an operation only its name and the instance it ran on are recorded.

VmApply(L, k, name, outcomes) ==
    /\ ~crashed
    /\ mode[L] = "run"
    /\ \E o \in Deref(heap[k].mem, Fs(k), outcomes) :
          /\ Apply(k, o)
          /\ last' = Op(name, L, {}, 0, 0)
    /\ UNCHANGED <<registry, vstack, handles, calls, mode, overflowed>>

\* The entry point has returned: its frame of the value stack is gone.
VmInit(L) == DoInit(L) /\ UNCHANGED vstack

VmEnter(L, h, frame) ==
    /\ heap[h.fnstack].count < MaxDepthVM
    /\ VmApply(L, h.fnstack, "frameenter", pallene_tracer_frameenter(Fs(h.fnstack), frame))

VmLine(L, h, line) ==
    VmApply(L, h.fnstack, "setline", pallene_tracer_setline(Fs(h.fnstack), line))

VmExit(L, h) ==
    VmApply(L, h.fnstack, "frameexit", pallene_tracer_frameexit(Fs(h.fnstack)))

VmFinalizer(L, h) ==
    VmApply(L, FinalizerTarget(h.fin), "finalizer",
            pallene_tracer_finalizer(Fs(FinalizerTarget(h.fin))))

NextVM ==
    \/ \E L \in Instances : VmInit(L)
    \/ \E L \in Instances : \E h \in handles[L] : \E frame \in Frames : VmEnter(L, h, frame)
    \/ \E L \in Instances : \E h \in handles[L] : \E line \in Lines : VmLine(L, h, line)
    \/ \E L \in Instances : \E h \in handles[L] : VmExit(L, h)
    \/ \E L \in Instances : \E h \in handles[L] : VmFinalizer(L, h)

SpecVM == Init /\ [][NextVM]_vars

(* ------------------- the host running native modules ------------------ *)
(* The calling convention the macros are written for.  A Lua C function    *)
(* the host dispatches runs PALLENE_TRACER_LUA_FRAMEENTER: it pushes a Lua *)
(* interface frame and marks the finalizer object to-be-closed in its own  *)
(* scope.  A native function called from native code runs                  *)
(* PALLENE_TRACER_C_FRAMEENTER and PALLENE_TRACER_FRAMEEXIT.  Lua closes   *)
(* a to-be-closed value when its C function returns and when an error      *)
(* unwinds through it; an error leaves the C frames above by longjmp.      *)
(* The call depth stays within the capacity of the shadow stack.           *)

\* PALLENE_TRACER_LUA_FRAMEENTER(L, fnstack, fnptr, location, var_name)
LuaEnter(L, h, fnptr) ==
    /\ Len(calls[L]) < PALLENE_TRACER_MAX_CALLSTACK
    /\ DoFrameEnter(L, h, PALLENE_TRACER_LUA_FRAME(fnptr), 0)
    /\ calls' = [calls EXCEPT ![L] =
                    Append(@, Call(PALLENE_TRACER_LUA_FRAME(fnptr), h.fin, Fs(h.fnstack)))]

\* PALLENE_TRACER_C_FRAMEENTER(fnstack, fn_name, filename, var_name), in a
\* native function called by the running native function
CEnter(L, h, detl) ==
    /\ Len(calls[L]) > 0
    /\ Len(calls[L]) < PALLENE_TRACER_MAX_CALLSTACK
    /\ DoFrameEnter(L, h, PALLENE_TRACER_C_FRAME(detl), 0)
    /\ calls' = [calls EXCEPT ![L] =
                    Append(@, Call(PALLENE_TRACER_C_FRAME(detl), Nil, Fs(h.fnstack)))]

\* PALLENE_TRACER_SETLINE(fnstack, line) in the running native function
CLine(L, h, line) ==
    /\ Len(calls[L]) > 0
    /\ Line(L, h, line)

\* PALLENE_TRACER_FRAMEEXIT(fnstack): the running native function returns
\* to its native caller
CReturn(L, h) ==
    /\ Len(calls[L]) > 0
    /\ Top(calls[L]).type = PALLENE_TRACER_FRAME_TYPE_C
    /\ Exit(L, h)

\* The running Lua C function returns to the host, which closes its
\* to-be-closed finalizer object.
LuaReturn(L) ==
    /\ mode[L] = "run"
    /\ Len(calls[L]) > 0
    /\ Top(calls[L]).type = PALLENE_TRACER_FRAME_TYPE_LUA
    /\ DoFinalizer(L, Top(calls[L]).fin, "return", 0)
    /\ calls' = [calls EXCEPT ![L] = ButLast(@)]
    /\ UNCHANGED mode

\* lua_error: a runtime error starts to propagate out of the running call.
Raise(L) ==
    /\ ~crashed
    /\ mode[L] = "run"
    /\ Len(calls[L]) > 0
    /\ mode' = [mode EXCEPT ![L] = "unwind"]
    /\ last' = Op("raise", L, {}, 0, 0)
    /\ UNCHANGED <<heap, registry, vstack, handles, calls, overflowed, crashed>>

\* The innermost call that marked a to-be-closed value.
Innermost(q) == CHOOSE i \in 1..Len(q) :
                    /\ q[i].fin # Nil
                    /\ \A j \in (i + 1)..Len(q) : q[j].fin = Nil

\* The error unwinds through the innermost host-dispatched entry: the calls
\* above it are gone, and the host closes its finalizer object.
Unwind(L) ==
    /\ mode[L] = "unwind"
    /\ \E i \in 1..Len(calls[L]) : calls[L][i].fin # Nil
    /\ LET i == Innermost(calls[L])
       IN  /\ DoFinalizer(L, calls[L][i].fin, "unwind",
                          IF last.op = "unwind" THEN last.n + 1 ELSE 1)
           /\ calls' = [calls EXCEPT ![L] = SubSeq(@, 1, i - 1)]
    /\ UNCHANGED mode

\* A protected call (lua_pcall) below the calls unwound so far catches the
\* error.
Catch(L) ==
    /\ ~crashed
    /\ mode[L] = "unwind"
    /\ mode' = [mode EXCEPT ![L] = "run"]
    /\ last' = Op("catch", L, {}, 0, 0)
    /\ UNCHANGED <<heap, registry, vstack, handles, calls, overflowed, crashed>>

Next ==
    \/ \E L \in OneVM : TracerInit(L)
    \/ \E L \in OneVM : \E h \in handles[L] : \E fnptr \in LuaFns : LuaEnter(L, h, fnptr)
    \/ \E L \in OneVM : \E h \in handles[L] : \E detl \in CFns : CEnter(L, h, detl)
    \/ \E L \in OneVM : \E h \in handles[L] : \E line \in Lines : CLine(L, h, line)
    \/ \E L \in OneVM : \E h \in handles[L] : CReturn(L, h)
    \/ \E L \in OneVM : LuaReturn(L)
    \/ \E L \in OneVM : Raise(L)
    \/ \E L \in OneVM : Unwind(L)
    \/ \E L \in OneVM : Catch(L)

Spec == Init /\ [][Next]_vars

(* ------------------------------- claims -------------------------------- *)

Container(L) == registry[L][PALLENE_TRACER_CONTAINER_ENTRY]

Initialised(L) == Container(L) # Nil

FsOf(hp, k) == [stack |-> hp[k].stack, count |-> hp[k].count]

\* The pt_fnstack_t of an initialised host instance.
TheStack(L) == FsOf(heap, Container(L).id)

Min(a, b) == IF a < b THEN a ELSE b

\* The frames the shadow stack counts are the frames of the calls q, in order.
Mirrors(fs, q) ==
    /\ fs.count = Len(q)
    /\ \A i \in 1..Len(q) :
          (i - 1) \in DOMAIN fs.stack /\ fs.stack[i - 1] = FrameOf(q[i])

\* C1: when an error unwinds through host-dispatched entries, each finalizer
\* that fires removes from the shadow stack exactly as many frames as calls
\* were left (its own excursion) and changes no frame, and after every
\* unwinding step and after the error is caught the frames below count are
\* exactly the native calls still active, outermost first.
C1_UnwindKeepsActiveCalls ==
    [][last'.op \in {"unwind", "catch"} =>
          LET L == last'.vm
              k == Container(L).id
          IN  /\ ~crashed'
              /\ Mirrors(FsOf(heap', k), calls'[L])
              /\ heap'[k].stack = heap[k].stack
              /\ heap[k].count - heap'[k].count = Len(calls[L]) - Len(calls'[L])]_vars

\* An error has unwound through two host-dispatched entries and stopped with
\* two calls still active, the running one a native-to-native call.
C1_Witness ==
    /\ last.op = "unwind"
    /\ last.n = 2
    /\ ~crashed
    /\ Len(calls["L1"]) = 2
    /\ Top(calls["L1"]).type = PALLENE_TRACER_FRAME_TYPE_C
    /\ TheStack("L1").count = 2

\* The highest slot below count that holds a Lua interface frame.
HighestLua(fs) ==
    CHOOSE i \in 0..(fs.count - 1) :
        /\ fs.stack[i].type = PALLENE_TRACER_FRAME_TYPE_LUA
        /\ \A j \in (i + 1)..(fs.count - 1) :
              fs.stack[j].type # PALLENE_TRACER_FRAME_TYPE_LUA

HasLua(fs) ==
    \E i \in 0..(fs.count - 1) :
        i \in DOMAIN fs.stack /\ fs.stack[i].type = PALLENE_TRACER_FRAME_TYPE_LUA

\* C2: on a stack with count <= capacity that holds a Lua interface frame
\* below count, one run of the finalizer sets count to the index of the
\* highest such frame and changes nothing else.
C2_FinalizerTruncates ==
    [][(/\ last'.op = "finalizer"
        /\ TheStack(last'.vm).count <= PALLENE_TRACER_MAX_CALLSTACK
        /\ HasLua(TheStack(last'.vm)))
          => /\ heap' = [heap EXCEPT ![Container(last'.vm).id].count =
                                         HighestLua(TheStack(last'.vm))]
             /\ ~crashed'
             /\ UNCHANGED <<registry, vstack, handles>>]_vars

\* The finalizer ran on [Lua, C, Lua, C]: count is 2, the four frames are
\* as they were.
C2_Witness ==
    /\ last.op = "finalizer"
    /\ last.pre = 4
    /\ TheStack("L1").count = 2
    /\ [i \in 0..3 |-> TheStack("L1").stack[i].type] =
           [i \in 0..3 |-> IF i \in {0, 2} THEN PALLENE_TRACER_FRAME_TYPE_LUA
                                           ELSE PALLENE_TRACER_FRAME_TYPE_C]

\* C3: with a push at every call and a pop at every return, count is the
\* number of active native calls, also past the capacity, and the first
\* min(count, capacity) slots hold the frames of the outermost calls in
\* order.
C3_CountIsCallDepth ==
    \A L \in OneVM :
        Initialised(L) =>
            /\ TheStack(L).count = Len(calls[L])
            /\ \A i \in 1..Min(Len(calls[L]), PALLENE_TRACER_MAX_CALLSTACK) :
                  /\ (i - 1) \in DOMAIN TheStack(L).stack
                  /\ TheStack(L).stack[i - 1] = FrameOf(calls[L][i])

\* One more call is active than the array has slots.
C3_Witness ==
    /\ last.op = "frameenter"
    /\ Initialised("L1")
    /\ TheStack("L1").count = PALLENE_TRACER_MAX_CALLSTACK + 1
    /\ Len(calls["L1"]) = PALLENE_TRACER_MAX_CALLSTACK + 1

\* C4: the pop that matches a push brings count back to what it was before
\* that push, whatever well-nested pushes, pops and set-lines came between
\* and also when that count was at or above the capacity, and the frames
\* below it have the kind and identity they had.
C4_PopRestoresCount ==
    [][(last'.op = "frameexit" /\ Len(calls[last'.vm]) > 0)
          => LET c  == Top(calls[last'.vm])
                 fs == FsOf(heap', Container(last'.vm).id)
             IN  /\ fs.count = c.base
                 /\ \A i \in DOMAIN c.below :
                       /\ i \in DOMAIN fs.stack
                       /\ fs.stack[i].type = c.below[i].type
                       /\ fs.stack[i].shared = c.below[i].shared]_vars

\* A call entered at full capacity has returned.
C4_Witness ==
    /\ last.op = "frameexit"
    /\ last.pre = PALLENE_TRACER_MAX_CALLSTACK + 1
    /\ TheStack("L1").count = PALLENE_TRACER_MAX_CALLSTACK
    /\ Len(calls["L1"]) = PALLENE_TRACER_MAX_CALLSTACK

\* C5: after n pushes onto the empty stack with nothing in between, count
\* is n, also for n above the capacity; the first min(n, capacity) slots
\* hold the first frames pushed; no push touched a slot outside the array,
\* a push past the capacity touched none, and none ended the process.
C5_PushPastCapacity ==
    (last.op = "frameenter" /\ last.n > 0) =>
        LET fs == TheStack(last.vm)
        IN  /\ ~crashed
            /\ fs.count = last.n
            /\ \A i \in last.acc : InBounds(i)
            /\ last.n > PALLENE_TRACER_MAX_CALLSTACK => last.acc = {}
            /\ \A i \in 1..Min(last.n, PALLENE_TRACER_MAX_CALLSTACK) :
                  fs.stack[i - 1] = FrameOf(calls[last.vm][i])

\* capacity + 1 frames have been pushed onto the empty stack.
C5_Witness ==
    /\ last.op = "frameenter"
    /\ last.n = PALLENE_TRACER_MAX_CALLSTACK + 1

\* C6: every slot an operation reads or writes lies in [0, capacity).
C6_AccessesInBounds == \A i \in last.acc : InBounds(i)

\* C7: count is never negative; a pop that finds count 0 leaves it 0 and a
\* pop that finds count > 0 leaves count - 1.
C7_PopSaturates ==
    /\ \A k \in UdIds : heap[k].count >= 0
    /\ last.op = "frameexit" =>
          TheStack(last.vm).count = IF last.pre > 0 THEN last.pre - 1 ELSE 0

\* A pop has run on the empty stack.
C7_Witness ==
    /\ last.op = "frameexit"
    /\ last.pre = 0
    /\ TheStack("L1").count = 0

\* C8: set-line on the empty stack touches no slot and changes nothing; on a
\* stack with 0 < count <= capacity it writes the line of slot count - 1 and
\* changes nothing else.
C8_SetLineFrame ==
    [][last'.op = "setline" =>
          LET L == last'.vm
              k == Container(L).id
              n == heap[k].count
          IN  /\ n = 0 => /\ heap' = heap
                          /\ last'.acc = {}
                          /\ ~crashed'
              /\ (0 < n /\ n <= PALLENE_TRACER_MAX_CALLSTACK) =>
                    /\ ~crashed'
                    /\ last'.acc = {n - 1}
                    /\ (n - 1) \in DOMAIN heap[k].stack
                    /\ heap' = [heap EXCEPT ![k].stack[n - 1].line = Top(calls'[L]).line]
                    /\ Top(calls'[L]).line \in Lines
                    /\ Len(calls'[L]) = n]_vars

\* set-line has written line 1 to the top frame of a stack of two and left
\* the frame below at line 0.
C8_Witness ==
    /\ last.op = "setline"
    /\ last.pre = 2
    /\ TheStack("L1").stack[1].line = 1
    /\ TheStack("L1").stack[0].line = 0

\* C9: calls of pallene_tracer_init on one host instance allocate one stack
\* in all; every call hands out that stack and the same finalizer object;
\* the first call sets count to 0 and a later call changes neither the heap
\* nor the registry, so what was pushed through one pointer is there through
\* every other.
C9_InitIdempotent ==
    [][\A L \in OneVM :
          /\ Cardinality({k \in UdIds : heap'[k].live}) <= 1
          /\ Cardinality(handles'[L]) <= 1
          /\ (last'.op = "init" /\ last'.vm = L) =>
                /\ registry'[L][PALLENE_TRACER_CONTAINER_ENTRY] # Nil
                /\ handles'[L] =
                      {[fnstack |-> registry'[L][PALLENE_TRACER_CONTAINER_ENTRY].id,
                        fin |-> registry'[L][PALLENE_TRACER_FINALIZER_ENTRY]]}
                /\ heap'[registry'[L][PALLENE_TRACER_CONTAINER_ENTRY].id].live
                /\ IF Initialised(L)
                   THEN heap' = heap /\ registry' = registry /\ handles' = handles
                   ELSE heap'[registry'[L][PALLENE_TRACER_CONTAINER_ENTRY].id].count = 0]_vars

\* pallene_tracer_init has run again on an instance whose stack holds two
\* frames, and found the stack.
C9_Witness ==
    /\ last.op = "init"
    /\ Initialised("L1")
    /\ TheStack("L1").count = 2
    /\ vstack["L1"][1] = Container("L1")

\* C10: two initialised host instances have different stacks, and no
\* operation on one instance changes count or frames of the other's.
C10_InstancesIsolated ==
    [][/\ \A L, M \in Instances :
             (L # M /\ handles'[L] # {} /\ handles'[M] # {}) =>
                 {h.fnstack : h \in handles'[L]} \cap {h.fnstack : h \in handles'[M]} = {}
       /\ \A M \in Instances :
             last'.vm # M =>
                 \A h \in handles[M] : FsOf(heap', h.fnstack) = FsOf(heap, h.fnstack)]_vars

\* Both instances are initialised; the finalizer has run on L2 and emptied
\* its stack, which held a Lua interface frame, while the stack of L1 still
\* holds a frame.
C10_Witness ==
    /\ Initialised("L1")
    /\ Initialised("L2")
    /\ last.op = "finalizer"
    /\ last.vm = "L2"
    /\ 0 \in DOMAIN TheStack("L2").stack
    /\ TheStack("L2").stack[0].type = PALLENE_TRACER_FRAME_TYPE_LUA
    /\ TheStack("L2").count = 0
    /\ TheStack("L1").count = 1

\* C16: when only host-dispatched entries attach the finalizer, each after
\* pushing its Lua interface frame, native-to-native calls pop on return and
\* the depth stays within the capacity, every finalizer run, on return or
\* while an error unwinds, finds a Lua interface frame below count: the scan
\* reads only slots in [0, count), stops at an index >= 0 without ending the
\* process, and no count is ever negative.
C16_ScanStopsInside ==
    [][/\ \A k \in UdIds : heap'[k].count >= 0
       /\ last'.op \in {"return", "unwind"} =>
             LET k == Container(last'.vm).id
             IN  /\ HasLua(FsOf(heap, k))
                 /\ ~crashed'
                 /\ last'.acc # {}
                 /\ \A i \in last'.acc : 0 <= i /\ i < heap[k].count
                 /\ heap'[k].count \in last'.acc]_vars

\* The finalizer has fired on the normal return of a host-dispatched entry
\* nested in two native calls: it read slot 2 only and set count to 2.
C16_Witness ==
    /\ last.op = "return"
    /\ last.pre = 3
    /\ last.acc = {2}
    /\ ~crashed
    /\ TheStack("L1").count = 2
    /\ Len(calls["L1"]) = 2

\* C15: pallene_tracer_init, called with instrumentation enabled on an
\* instance for the first time or again, leaves the value stack of its caller
\* exactly one value taller, with the finalizer object on top.
C15_InitPushesOne ==
    last.op = "init" =>
        /\ Len(vstack[last.vm]) = 1
        /\ vstack[last.vm][Len(vstack[last.vm])] =
               registry[last.vm][PALLENE_TRACER_FINALIZER_ENTRY]

(* ------- PALLENE_TRACER_LUA_FRAMEENTER, statement by statement --------- *)
(* The macro expands to three statements (ptracer.h:113-115); here each    *)
(* statement that changes state is a step of its own, and the rest of the  *)
(* calling convention is as in Spec.                                       *)

\* The running call has pushed its Lua interface frame and has not yet run
\* _PALLENE_TRACER_FINALIZER.
AtFinalizerMacro(L) ==
    /\ Len(calls[L]) > 0
    /\ Top(calls[L]).type = PALLENE_TRACER_FRAME_TYPE_LUA
    /\ Top(calls[L]).fin = Nil

\* ptracer.h:113-114  _PALLENE_TRACER_PREPARE_LUA_FRAME; PALLENE_TRACER_FRAMEENTER
LuaFramePush(L, h, fnptr) ==
    /\ ~AtFinalizerMacro(L)
    /\ Len(calls[L]) < PALLENE_TRACER_MAX_CALLSTACK
    /\ DoFrameEnter(L, h, PALLENE_TRACER_LUA_FRAME(fnptr), 0)
    /\ calls' = [calls EXCEPT ![L] =
                    Append(@, Call(PALLENE_TRACER_LUA_FRAME(fnptr), Nil, Fs(h.fnstack)))]

\* ptracer.h:115, 69-70  lua_pushvalue(L, location); lua_toclose(L, -1):
\* the finalizer object is marked to-be-closed in the running call.
LuaFrameAttach(L, h) ==
    /\ ~crashed
    /\ mode[L] = "run"
    /\ AtFinalizerMacro(L)
    /\ calls' = [calls EXCEPT ![L][Len(calls[L])].fin = h.fin]
    /\ last' = Op("toclose", L, {}, 0, 0)
    /\ UNCHANGED <<heap, registry, vstack, handles, mode, overflowed, crashed>>

NextMacro ==
    \/ \E L \in OneVM : ~AtFinalizerMacro(L) /\ TracerInit(L)
    \/ \E L \in OneVM : \E h \in handles[L] : \E fnptr \in LuaFns : LuaFramePush(L, h, fnptr)
    \/ \E L \in OneVM : \E h \in handles[L] : LuaFrameAttach(L, h)
    \/ \E L \in OneVM : \E h \in handles[L] : \E detl \in CFns :
          ~AtFinalizerMacro(L) /\ CEnter(L, h, detl)
    \/ \E L \in OneVM : \E h \in handles[L] : \E line \in Lines :
          ~AtFinalizerMacro(L) /\ CLine(L, h, line)
    \/ \E L \in OneVM : \E h \in handles[L] : ~AtFinalizerMacro(L) /\ CReturn(L, h)
    \/ \E L \in OneVM : ~AtFinalizerMacro(L) /\ LuaReturn(L)
    \/ \E L \in OneVM : ~AtFinalizerMacro(L) /\ Raise(L)
    \/ \E L \in OneVM : Unwind(L)
    \/ \E L \in OneVM : Catch(L)

SpecMacro == Init /\ [][NextMacro]_vars

\* C12: whenever the Lua interface frame of a host-dispatched entry is on
\* the shadow stack, the finalizer is already attached to that call's scope.
C12_AttachedBeforePush ==
    \A L \in OneVM :
        \A i \in 1..Len(calls[L]) :
            (/\ calls[L][i].type = PALLENE_TRACER_FRAME_TYPE_LUA
             /\ Initialised(L)
             /\ TheStack(L).count >= i
             /\ (i - 1) \in DOMAIN TheStack(L).stack
             /\ TheStack(L).stack[i - 1] = FrameOf(calls[L][i]))
                => calls[L][i].fin # Nil

(* ----- host-dispatched entries that pop their frame before returning ---- *)
(* As Spec, except that a host-dispatched entry runs                       *)
(* PALLENE_TRACER_FRAMEEXIT on its own Lua interface frame on the normal   *)
(* path and then returns; the host closes its finalizer object at the      *)
(* return, as at every exit from the scope.  The call depth stays within   *)
(* MaxDepthExit.                                                           *)

\* The running host-dispatched entry has popped its frame and is returning.
HasPopped(L) == last.op = "luaexit" /\ last.vm = L

\* PALLENE_TRACER_FRAMEEXIT(fnstack) in the running host-dispatched entry
LuaFrameExit(L, h) ==
    /\ ~crashed
    /\ mode[L] = "run"
    /\ ~HasPopped(L)
    /\ Len(calls[L]) > 0
    /\ Top(calls[L]).type = PALLENE_TRACER_FRAME_TYPE_LUA
    /\ \E o \in pallene_tracer_frameexit(Fs(h.fnstack)) :
          /\ Apply(h.fnstack, o)
          /\ last' = Op("luaexit", L, o.acc, heap[h.fnstack].count, 0)
    /\ UNCHANGED <<registry, vstack, handles, calls, mode, overflowed>>

\* The entry returns to the host, which closes the to-be-closed finalizer
\* object: _pallene_tracer_finalizer runs after the pop.
LuaReturnPopped(L) ==
    /\ mode[L] = "run"
    /\ HasPopped(L)
    /\ DoFinalizer(L, Top(calls[L]).fin, "return", 0)
    /\ calls' = [calls EXCEPT ![L] = ButLast(@)]
    /\ UNCHANGED mode

NextExit ==
    \/ \E L \in OneVM : ~HasPopped(L) /\ TracerInit(L)
    \/ \E L \in OneVM : \E h \in handles[L] : \E fnptr \in LuaFns :
          ~HasPopped(L) /\ Len(calls[L]) < MaxDepthExit /\ LuaEnter(L, h, fnptr)
    \/ \E L \in OneVM : \E h \in handles[L] : \E detl \in CFns :
          ~HasPopped(L) /\ Len(calls[L]) < MaxDepthExit /\ CEnter(L, h, detl)
    \/ \E L \in OneVM : \E h \in handles[L] : \E line \in Lines :
          ~HasPopped(L) /\ CLine(L, h, line)
    \/ \E L \in OneVM : \E h \in handles[L] : ~HasPopped(L) /\ CReturn(L, h)
    \/ \E L \in OneVM : \E h \in handles[L] : LuaFrameExit(L, h)
    \/ \E L \in OneVM : LuaReturnPopped(L)
    \/ \E L \in OneVM : ~HasPopped(L) /\ Raise(L)
    \/ \E L \in OneVM : Unwind(L)
    \/ \E L \in OneVM : Catch(L)

SpecExit == Init /\ [][NextExit]_vars

\* C14: when a host-dispatched entry has popped its frame on the normal path
\* and its finalizer then runs at the return, the finalizer changes neither
\* count nor any frame (and does not end the process).
C14_FinalizerRedundant ==
    [][(last'.op = "return" /\ last.op = "luaexit")
          => /\ heap' = heap
             /\ ~crashed']_vars

(* ---------------------- the build without PT_DEBUG --------------------- *)
(* The macros of ptracer.h:54-56 and 73-75 expand to nothing and           *)
(* pallene_tracer_init is its #else branch.  Native calls are entered and  *)
(* left as in Spec; calls records them, with no frame behind them.         *)

\* The null pointer; userdata are numbered from 1.
NULL == 0

\* Mutant: the PT_DEBUG branch is compiled.
InitCompiledWithDebug(s) == pallene_tracer_init(s)

\* ptracer.h:305-306  lua_pushnil(L); return NULL
pallene_tracer_init_nodebug(s) == [s |-> Push(s, Nil), fnstack |-> NULL]

\* ptracer.h:54  #define PALLENE_TRACER_FRAMEENTER(fnstack, frame)
NoDebugFrameEnter(hp, fnstack, frame) == hp

\* ptracer.h:55  #define PALLENE_TRACER_SETLINE(fnstack, line)
NoDebugSetLine(hp, fnstack, line) == hp

\* ptracer.h:56  #define PALLENE_TRACER_FRAMEEXIT(fnstack)
NoDebugFrameExit(hp, fnstack) == hp

\* ptracer.h:75  #define _PALLENE_TRACER_FINALIZER(L, location): what the
\* call has marked to-be-closed afterwards
NoDebugFinalizer(location) == Nil

\* A native call that has no frame.
NoDebugCall(frame, fin) == Call(frame, fin, [stack |-> EmptyFn, count |-> 0])

\* A module entry point calls pallene_tracer_init on a fresh C stack frame.
NoDebugInit(L) ==
    /\ ~crashed
    /\ mode[L] = "run"
    /\ LET r == pallene_tracer_init_nodebug(
                    [stack |-> <<>>, reg |-> RegistryOf(L), heap |-> heap,
                     malloc |-> "valid"])
       IN  /\ heap' = r.s.heap
           /\ registry' = [registry EXCEPT ![L] = r.s.reg]
           /\ vstack' = [vstack EXCEPT ![L] = r.s.stack]
           /\ handles' = [handles EXCEPT ![L] =
                             @ \cup {[fnstack |-> r.fnstack, fin |-> At(r.s, -1)]}]
    /\ last' = Op("init", L, {}, 0, 0)
    /\ UNCHANGED <<calls, mode, overflowed, crashed>>

\* PALLENE_TRACER_LUA_FRAMEENTER(L, fnstack, fnptr, location, var_name)
NoDebugLuaEnter(L, h, fnptr) ==
    /\ ~crashed
    /\ mode[L] = "run"
    /\ Len(calls[L]) < PALLENE_TRACER_MAX_CALLSTACK
    /\ heap' = NoDebugFrameEnter(heap, h.fnstack, PALLENE_TRACER_LUA_FRAME(fnptr))
    /\ calls' = [calls EXCEPT ![L] =
                    Append(@, NoDebugCall(PALLENE_TRACER_LUA_FRAME(fnptr),
                                          NoDebugFinalizer(h.fin)))]
    /\ last' = Op("toclose", L, {}, 0, 0)
    /\ UNCHANGED <<registry, vstack, handles, mode, overflowed, crashed>>

\* PALLENE_TRACER_C_FRAMEENTER(fnstack, fn_name, filename, var_name)
NoDebugCEnter(L, h, detl) ==
    /\ ~crashed
    /\ mode[L] = "run"
    /\ Len(calls[L]) > 0
    /\ Len(calls[L]) < PALLENE_TRACER_MAX_CALLSTACK
    /\ heap' = NoDebugFrameEnter(heap, h.fnstack, PALLENE_TRACER_C_FRAME(detl))
    /\ calls' = [calls EXCEPT ![L] =
                    Append(@, NoDebugCall(PALLENE_TRACER_C_FRAME(detl), Nil))]
    /\ last' = Op("frameenter", L, {}, 0, 0)
    /\ UNCHANGED <<registry, vstack, handles, mode, overflowed, crashed>>

\* PALLENE_TRACER_SETLINE(fnstack, line) in the running native function
NoDebugCLine(L, h, line) ==
    /\ ~crashed
    /\ mode[L] = "run"
    /\ Len(calls[L]) > 0
    /\ heap' = NoDebugSetLine(heap, h.fnstack, line)
    /\ last' = Op("setline", L, {}, 0, line)
    /\ UNCHANGED <<registry, vstack, handles, calls, mode, overflowed, crashed>>

\* PALLENE_TRACER_FRAMEEXIT(fnstack): the running native function returns
NoDebugCReturn(L, h) ==
    /\ ~crashed
    /\ mode[L] = "run"
    /\ Len(calls[L]) > 0
    /\ Top(calls[L]).type = PALLENE_TRACER_FRAME_TYPE_C
    /\ heap' = NoDebugFrameExit(heap, h.fnstack)
    /\ calls' = [calls EXCEPT ![L] = ButLast(@)]
    /\ last' = Op("frameexit", L, {}, 0, 0)
    /\ UNCHANGED <<registry, vstack, handles, mode, overflowed, crashed>>

\* The running Lua C function returns to the host; it has marked nothing
\* to-be-closed.
NoDebugLuaReturn(L) ==
    /\ ~crashed
    /\ mode[L] = "run"
    /\ Len(calls[L]) > 0
    /\ Top(calls[L]).type = PALLENE_TRACER_FRAME_TYPE_LUA
    /\ calls' = [calls EXCEPT ![L] = ButLast(@)]
    /\ last' = Op("return", L, {}, 0, 0)
    /\ UNCHANGED <<heap, registry, vstack, handles, mode, overflowed, crashed>>

NextNoDebug ==
    \/ \E L \in Instances : NoDebugInit(L)
    \/ \E L \in Instances : \E h \in handles[L] : \E fnptr \in LuaFns :
          NoDebugLuaEnter(L, h, fnptr)
    \/ \E L \in Instances : \E h \in handles[L] : \E detl \in CFns : NoDebugCEnter(L, h, detl)
    \/ \E L \in Instances : \E h \in handles[L] : \E line \in Lines : NoDebugCLine(L, h, line)
    \/ \E L \in Instances : \E h \in handles[L] : NoDebugCReturn(L, h)
    \/ \E L \in Instances : NoDebugLuaReturn(L)

SpecNoDebug == Init /\ [][NextNoDebug]_vars

\* C13: without PT_DEBUG, pallene_tracer_init returns NULL and leaves nil on
\* top of the value stack, one value above where it was; no userdata is
\* ever allocated and no registry entry written; no call has anything
\* marked to-be-closed; and frame-enter, set-line, frame-exit and the
\* finalizer attachment change neither heap, registry, value stack nor what
\* init handed out.
C13_DisabledIsInert ==
    [][/\ \A k \in UdIds : ~heap'[k].live /\ heap'[k] = heap[k]
       /\ \A L \in Instances :
             /\ \A e \in DOMAIN registry'[L] : registry'[L][e] = Nil
             /\ handles'[L] \subseteq {[fnstack |-> NULL, fin |-> Nil]}
             /\ \A i \in 1..Len(calls'[L]) : calls'[L][i].fin = Nil
       /\ ~crashed'
       /\ last'.op = "init" =>
             /\ vstack'[last'.vm] = <<Nil>>
             /\ handles'[last'.vm] = {[fnstack |-> NULL, fin |-> Nil]}
       /\ last'.op \in {"frameenter", "setline", "frameexit", "toclose"} =>
             UNCHANGED <<heap, registry, vstack, handles, crashed>>]_vars

\* Both instances are initialised; on L1 a host-dispatched entry called a
\* native function, which set a line; nothing is allocated.
C13_Witness ==
    /\ handles["L1"] # {}
    /\ handles["L2"] # {}
    /\ last.op = "setline"
    /\ last.vm = "L1"
    /\ Len(calls["L1"]) = 2
    /\ calls["L1"][1].type = PALLENE_TRACER_FRAME_TYPE_LUA
    /\ calls["L1"][2].type = PALLENE_TRACER_FRAME_TYPE_C
    /\ \A k \in UdIds : ~heap[k].live

(* ------------------- initialisation when malloc may fail --------------- *)
(* As SpecOps, except that the malloc of pallene_tracer_init returns a     *)
(* block or NULL.                                                          *)

\* pallene_tracer_init(L) called on a fresh C stack frame; its malloc, if it
\* calls it, returns block
InitResultAlloc(L, block) ==
    pallene_tracer_init([stack |-> <<>>, reg |-> RegistryOf(L), heap |-> heap,
                         malloc |-> block])

\* A module entry point calls pallene_tracer_init and keeps the pointer
\* returned and the finalizer object pushed.
AllocInit(L, block) ==
    /\ ~crashed
    /\ mode[L] = "run"
    /\ FreeUd(heap) # {}
    /\ heap' = InitResultAlloc(L, block).s.heap
    /\ registry' = [registry EXCEPT ![L] = InitResultAlloc(L, block).s.reg]
    /\ vstack' = [vstack EXCEPT ![L] = InitResultAlloc(L, block).s.stack]
    /\ handles' = [handles EXCEPT ![L] =
                      @ \cup {[fnstack |-> InitResultAlloc(L, block).fnstack,
                               fin |-> At(InitResultAlloc(L, block).s, -1)]}]
    /\ last' = Op("init", L, {}, 0, 0)
    /\ UNCHANGED <<calls, mode, overflowed, crashed>>

NextAlloc ==
    \/ \E L \in OneVM : \E block \in Blocks : AllocInit(L, block)
    \/ \E L \in OneVM : \E h \in handles[L] : \E frame \in Frames : OpEnter(L, h, frame)
    \/ \E L \in OneVM : \E h \in handles[L] : \E line \in Lines : OpLine(L, h, line)
    \/ \E L \in OneVM : \E h \in handles[L] : OpExit(L, h)
    \/ \E L \in OneVM : \E h \in handles[L] : OpFinalizer(L, h)

SpecAlloc == Init /\ [][NextAlloc]_vars

\* C17: when the malloc of the first pallene_tracer_init fails, no fnstack
\* whose frame array is the null pointer is stored in the registry or
\* returned, and no push, set-line or finalizer run accesses a slot through
\* the null pointer.
C17_NoNullStackPublished ==
    \A L \in OneVM :
        /\ Initialised(L) => heap[Container(L).id].mem # "null"
        /\ \A h \in handles[L] : heap[h.fnstack].mem # "null"
        /\ (last.vm = L /\ last.acc # {}) => heap[Container(L).id].mem # "null"

(* ------------- the lifetime of the frame array: gc and lua_close ------- *)
(* As SpecVM, with the host's collector and lua_close.  The host calls the *)
(* __gc metamethod of a userdata once, when it collects it: in a cycle     *)
(* that finds it unreachable, or in lua_close, after which no native code  *)
(* runs on that lua_State.  The registry of a lua_State keeps what it      *)
(* holds reachable; the pt_fnstack_t pointer a module keeps does not.      *)

\* Mutant: the __gc metamethod leaves the block allocated.
FreeResourcesKeepsBlock(mem) == mem

\* ptracer.h:244  free(fnstack->stack): the state of the block afterwards.
\* free(NULL) does nothing; freeing what is not a live block is undefined.
pallene_tracer_free_resources(mem) ==
    IF mem = "valid" THEN "freed"
    ELSE IF mem = "null" THEN "null"
    ELSE "badfree"

\* The host collects userdata ud: it calls the __gc of its metatable.
Finalise(ud) ==
    IF /\ ud.meta # Nil
       /\ "__gc" \in DOMAIN ud.meta.fields
       /\ ud.meta.fields["__gc"].fn = "_pallene_tracer_free_resources"
    THEN [ud EXCEPT !.mem = pallene_tracer_free_resources(@), !.live = FALSE]
    ELSE [ud EXCEPT !.live = FALSE]

\* The userdata pallene_tracer_init has created in L.
Owned(L) == {h.fnstack : h \in handles[L]}

\* The userdata the registry of L keeps reachable: the container entry, and
\* the upvalue of the finalizer entry's __close closure.
Anchored(L) ==
    (IF registry[L][PALLENE_TRACER_CONTAINER_ENTRY] = Nil
     THEN {} ELSE {registry[L][PALLENE_TRACER_CONTAINER_ENTRY].id})
        \cup (IF registry[L][PALLENE_TRACER_FINALIZER_ENTRY] = Nil
              THEN {} ELSE {FinalizerTarget(registry[L][PALLENE_TRACER_FINALIZER_ENTRY])})

Collect(L, ids, name) ==
    /\ ~crashed
    /\ mode[L] = "run"
    /\ heap' = [k \in UdIds |-> IF k \in ids /\ heap[k].live THEN Finalise(heap[k])
                                                              ELSE heap[k]]
    /\ last' = Op(name, L, {}, 0, 0)
    /\ UNCHANGED <<registry, vstack, handles, calls, overflowed, crashed>>

\* A collection cycle of the running lua_State L
HostGc(L) == Collect(L, Owned(L) \ Anchored(L), "gc") /\ UNCHANGED mode

\* lua_close(L): every object of L is collected and L is gone.
Close(L) == Collect(L, Owned(L), "close") /\ mode' = [mode EXCEPT ![L] = "closed"]

NextLife ==
    \/ \E L \in Instances : VmInit(L)
    \/ \E L \in Instances : \E h \in handles[L] : \E frame \in Frames : VmEnter(L, h, frame)
    \/ \E L \in Instances : \E h \in handles[L] : \E line \in Lines : VmLine(L, h, line)
    \/ \E L \in Instances : \E h \in handles[L] : VmExit(L, h)
    \/ \E L \in Instances : \E h \in handles[L] : VmFinalizer(L, h)
    \/ \E L \in Instances : HostGc(L)
    \/ \E L \in Instances : Close(L)

SpecLife == Init /\ [][NextLife]_vars

StackOps == {"frameenter", "setline", "frameexit", "finalizer"}

====
